---- MODULE Spec2Model ----
(***************************************************************************)
(* The media organizer: FilesIter (directory.rs), Date (date.rs), the      *)
(* PhotoOrganizer and VideoOrganizer classifiers (organizer/photos.rs,     *)
(* organizer/videos.rs), Organizer::organize / move_file (organizer.rs)    *)
(* and the registration of classifiers in main (main.rs, config.rs).       *)
(*                                                                         *)
(* A path is a sequence of component names relative to the working         *)
(* directory of the process; a name is a string.  The empty sequence is    *)
(* the empty PathBuf (PathBuf::new()): it names no directory by itself,    *)
(* and joining a name to it gives a path in the working directory.         *)
(***************************************************************************)
EXTENDS Integers, Sequences, FiniteSets, TLC

VARIABLES
    fs,                     \* the filesystem: path -> node
    fs0,                    \* the filesystem when organize was called
    config,                 \* how the Organizer was built (main's Config, or a direct Organizer::new)
    media_type_organizers,  \* Organizer.media_type_organizers
    dirs,                   \* FilesIter.dirs
    files,                  \* FilesIter.files
    pc,                     \* position in Organizer::organize
    file,                   \* organize: the file of the current iteration of the outer loop
    idx,                    \* organize: position of the inner loop in media_type_organizers
    dst_dir,                \* organize: the dst_dir bound at lines 49-58
    log,                    \* the calls made for the current file, in order
    yielded,                \* every path FilesIter::next has returned, in order
    moves,                  \* every move_file call of the run and its result, in order
    io_failures,            \* number of injected operating-system failures so far
    reads,                  \* every directory FilesIter::next has popped off its stack, in order
    later_calls,            \* number of FilesIter::next calls made after the one that returned None
    ext_writes,             \* number of files another process has created so far
    date_call               \* a Date::new call on its own: its arguments and its result

vars == <<fs, fs0, config, media_type_organizers, dirs, files, pc, file, idx,
          dst_dir, log, yielded, moves, io_failures, reads, later_calls, ext_writes,
          date_call>>

\* At most this many entries of Catalogue are in the tree organize starts on.
MaxItems == 2
\* At most this many mkdir / rename calls of one run fail for a reason outside the model
\* (permissions, a rename across filesystems).
MaxIoFailures == 1
\* At most this many files are created by another process while organize runs.
MaxExternalWrites == 1
\* At most this many entries of IterCatalogue are in the tree FilesIter is run on alone.
MaxIterItems == 4
\* At most this many times is FilesIter::next called again after it returned None.
MaxLaterCalls == 2

-----------------------------------------------------------------------------
(* Sequences and strings *)

Front(s) == SubSeq(s, 1, Len(s) - 1)
Last(s) == s[Len(s)]
Char(s, i) == SubSeq(s, i, i)
IsPrefix(p, q) == Len(p) <= Len(q) /\ SubSeq(q, 1, Len(p)) = p

\* Path::join with a relative, single-component argument
Join(p, name) == Append(p, name)

AsciiDigits == {"0", "1", "2", "3", "4", "5", "6", "7", "8", "9"}
\* "#" stands for a decimal digit outside ASCII, such as U+0662 ARABIC-INDIC DIGIT TWO:
\* the regex crate's \d is Unicode-aware (\p{Nd}) unless (?-u) is given, so it matches.
NonAsciiDigits == {"#"}

\* regex \d
IsDigit(c) == c \in AsciiDigits \cup NonAsciiDigits
AllDigits(s, from, to) == \A i \in from..to : IsDigit(Char(s, i))
\* regex . (any character except a line feed)
NoLineFeed(s, from, to) == \A i \in from..to : Char(s, i) # "\n"

DigitValue(c) ==
    CASE c = "0" -> 0 [] c = "1" -> 1 [] c = "2" -> 2 [] c = "3" -> 3 [] c = "4" -> 4
      [] c = "5" -> 5 [] c = "6" -> 6 [] c = "7" -> 7 [] c = "8" -> 8 [] c = "9" -> 9

DigitChar(d) ==
    CASE d = 0 -> "0" [] d = 1 -> "1" [] d = 2 -> "2" [] d = 3 -> "3" [] d = 4 -> "4"
      [] d = 5 -> "5" [] d = 6 -> "6" [] d = 7 -> "7" [] d = 8 -> "8" [] d = 9 -> "9"

\* str::parse::<u16>() / str::parse::<u8>() on a run of regex digits: Ok only for ASCII
\* digits. Four digits fit a u16 and two fit a u8, so the only failure is a non-ASCII digit.
RECURSIVE ParseDigits(_)
ParseDigits(s) ==
    IF s = "" THEN 0
    ELSE 10 * ParseDigits(SubSeq(s, 1, Len(s) - 1)) + DigitValue(Char(s, Len(s)))

parse(s) ==
    IF \A i \in 1..Len(s) : Char(s, i) \in AsciiDigits
    THEN [tag |-> "Ok", val |-> ParseDigits(s)]
    ELSE [tag |-> "Err"]

\* u16::to_string
RECURSIVE to_string(_)
to_string(n) ==
    IF n < 10 THEN DigitChar(n) ELSE to_string(n \div 10) \o DigitChar(n % 10)

-----------------------------------------------------------------------------
(* eyre results.  An error is its chain of messages, outermost first; a    *)
(* message is a record so that a whole Report can be used as a message     *)
(* (wrap_err(report)): msg is what it displays, inner the chain it holds.  *)

Msg(text) == [msg |-> text, inner |-> <<>>]
ReportAsMsg(chain) == [msg |-> chain[1].msg, inner |-> chain]

Ok(v) == [tag |-> "Ok", val |-> v]
Err(text) == [tag |-> "Err", chain |-> <<Msg(text)>>]
Panic == [tag |-> "Panic"]

\* WrapErr::wrap_err: a context in front of the chain of an Err; Ok is untouched
\* (and a panic is no value at all: it unwinds through the caller)
wrap_err(r, context) ==
    IF r.tag = "Err" THEN [tag |-> "Err", chain |-> <<context>> \o r.chain] ELSE r

-----------------------------------------------------------------------------
(* date.rs *)

MinMonth == 1
MaxMonth == 12
MinYear == 1839
MaxYear == 3000

\* Date::new with the bounds themselves rejected (<= and >= for < and >)
Date_new_open_bounds(year, month) ==
    IF month <= MinMonth \/ month >= MaxMonth
    THEN Err("invalid month, should be between 1 and 12")
    ELSE IF year <= MinYear \/ year >= MaxYear
    THEN Err("invalid year, should be between 1839 and 3000")
    ELSE Ok([year |-> year, month |-> month])

Date_new(year, month) ==
    IF month < MinMonth \/ month > MaxMonth
    THEN Err("invalid month, should be between 1 and 12")
    ELSE IF year < MinYear \/ year > MaxYear
    THEN Err("invalid year, should be between 1839 and 3000")
    ELSE Ok([year |-> year, month |-> month])

get_month(date) ==
    CASE date.month = 1 -> "01 - January"
      [] date.month = 2 -> "02 - February"
      [] date.month = 3 -> "03 - March"
      [] date.month = 4 -> "04 - April"
      [] date.month = 5 -> "05 - May"
      [] date.month = 6 -> "06 - June"
      [] date.month = 7 -> "07 - July"
      [] date.month = 8 -> "08 - August"
      [] date.month = 9 -> "09 - September"
      [] date.month = 10 -> "10 - October"
      [] date.month = 11 -> "11 - November"
      [] date.month = 12 -> "12 - December"
      [] OTHER -> ""

get_year(date) == to_string(date.year)

\* no Date::new call is under way
NoDateCall == [year |-> 0, month |-> 0, res |-> [tag |-> "NotCalled"]]

-----------------------------------------------------------------------------
(* std::path *)

\* Path::file_name: the last component, None for the empty path
file_name(path) ==
    IF path = <<>> THEN [some |-> FALSE] ELSE [some |-> TRUE, val |-> Last(path)]

\* position of the last "." of a name, 0 when it has none
LastDot(name) ==
    LET dots == {i \in 1..Len(name) : Char(name, i) = "."}
    IN  IF dots = {} THEN 0 ELSE CHOOSE i \in dots : \A j \in dots : j <= i

\* Path::extension: what follows the last "." of the file name; None when there is
\* no file name, no ".", or the only "." is the first character
extension(path) ==
    IF ~file_name(path).some THEN [some |-> FALSE]
    ELSE LET name == file_name(path).val
             dot == LastDot(name)
         IN  IF dot <= 1 THEN [some |-> FALSE]
             ELSE [some |-> TRUE, val |-> SubSeq(name, dot + 1, Len(name))]

-----------------------------------------------------------------------------
(* The filesystem.  A node is a directory (readable or not), a regular     *)
(* file (an identity and what its Exif container holds), a symbolic link   *)
(* (its target, a path without symbolic links) or another kind of entry    *)
(* (a fifo, a socket).                                                     *)

NoExif == [tag |-> "none", year |-> 0, month |-> 0]
ExifDate(tag, year, month) == [tag |-> tag, year |-> year, month |-> month]

DirNode(readable) ==
    [kind |-> "dir", id |-> 0, exif |-> NoExif, target |-> <<>>, readable |-> readable]
FileNode(id, exif) ==
    [kind |-> "file", id |-> id, exif |-> exif, target |-> <<>>, readable |-> TRUE]
LinkNode(target) ==
    [kind |-> "link", id |-> 0, exif |-> NoExif, target |-> target, readable |-> TRUE]
OtherNode ==
    [kind |-> "other", id |-> 0, exif |-> NoExif, target |-> <<>>, readable |-> TRUE]

\* the path with every symbolic link on it followed, the last component included (stat)
RECURSIVE Canon(_, _)
Canon(f, path) ==
    IF path = <<>> THEN <<>>
    ELSE LET q == Append(Canon(f, Front(path)), Last(path))
         IN  IF q \in DOMAIN f /\ f[q].kind = "link" THEN f[q].target ELSE q

\* the path with the links of its parent followed, but not its last component (lstat)
LCanon(f, path) ==
    IF path = <<>> THEN <<>> ELSE Append(Canon(f, Front(path)), Last(path))

Exists(f, path) == path # <<>> /\ Canon(f, path) \in DOMAIN f
\* Path::is_dir, Path::is_file: both follow symbolic links
is_dir(f, path) == Exists(f, path) /\ f[Canon(f, path)].kind = "dir"
is_file(f, path) == Exists(f, path) /\ f[Canon(f, path)].kind = "file"
\* Path::read_link: Ok exactly on a symbolic link
read_link_is_ok(f, path) ==
    path # <<>> /\ LCanon(f, path) \in DOMAIN f /\ f[LCanon(f, path)].kind = "link"

\* fs::read_dir: the entries of a readable directory, as paths under the path asked for
read_dir_is_ok(f, dir) == is_dir(f, dir) /\ f[Canon(f, dir)].readable
read_dir(f, dir) ==
    {Join(dir, Last(q)) : q \in {q \in DOMAIN f : Len(q) > 0 /\ Front(q) = Canon(f, dir)}}

\* fs::create_dir_all on a path that is no directory: it fails, creating nothing, when
\* the deepest existing ancestor is no directory; otherwise it creates the missing
\* directories from the outermost inwards.  With os_ok false a mkdir fails for a reason
\* outside the model after `made` of the missing directories were created.
MissingPrefixes(f, path) ==
    {SubSeq(path, 1, n) : n \in {n \in 1..Len(path) : ~Exists(f, SubSeq(path, 1, n))}}

create_dir_all(f, path, os_ok, made) ==
    LET blocked == \E n \in 1..Len(path) :
                       /\ Exists(f, SubSeq(path, 1, n))
                       /\ ~is_dir(f, SubSeq(path, 1, n))
        missing == MissingPrefixes(f, path)
        shortest == IF missing = {} THEN 0
                    ELSE Len(CHOOSE p \in missing : \A q \in missing : Len(p) <= Len(q))
        created == IF os_ok THEN missing
                   ELSE {p \in missing : Len(p) < shortest + made}
        new == {Canon(f, p) : p \in created}
    IN  IF blocked
        THEN [res |-> Err("File exists"), fs |-> f]
        ELSE [res |-> IF os_ok THEN Ok(TRUE) ELSE Err("Permission denied"),
              fs |-> [q \in DOMAIN f \cup new |->
                         IF q \in DOMAIN f THEN f[q] ELSE DirNode(TRUE)]]

\* fs::rename(from, to), neither followed when it is a symbolic link: `from` must
\* exist and the parent of `to` must be a directory; a directory at `to` is not
\* replaced by a file; a file or a link at `to` is replaced without notice.
\* With os_ok false the rename fails for a reason outside the model (EXDEV, EACCES).
rename(f, from, to, os_ok) ==
    LET src == LCanon(f, from)
        dst == LCanon(f, to)
    IN  IF from = <<>> \/ src \notin DOMAIN f
        THEN [res |-> Err("No such file or directory"), fs |-> f]
        ELSE IF to = <<>> \/ (Len(to) > 1 /\ ~is_dir(f, Front(to)))
        THEN [res |-> Err("No such file or directory"), fs |-> f]
        ELSE IF dst \in DOMAIN f /\ f[dst].kind = "dir" /\ f[src].kind # "dir"
        THEN [res |-> Err("Is a directory"), fs |-> f]
        ELSE IF ~os_ok
        THEN [res |-> Err("Invalid cross-device link"), fs |-> f]
        ELSE IF src = dst
        THEN [res |-> Ok(TRUE), fs |-> f]
        ELSE [res |-> Ok(TRUE),
              fs |-> [q \in (DOMAIN f \ {src}) \cup {dst} |->
                         IF q = dst THEN f[src] ELSE f[q]]]

-----------------------------------------------------------------------------
(* organizer/photos.rs *)

PhotoOrganizer_SUPPORTED == <<"jpeg", "jpg", "JPG">>

PhotoOrganizer_new(dir) == [kind |-> "photo", dst_dir |-> dir]

PhotoOrganizer_is_supported(ext) ==
    \E i \in 1..Len(PhotoOrganizer_SUPPORTED) : ext = PhotoOrganizer_SUPPORTED[i]

PhotoOrganizer_should_organize(item) ==
    IF extension(item).some THEN PhotoOrganizer_is_supported(extension(item).val) ELSE FALSE

\* Regex ^IMG\-(\d{4})(\d{2})\d{2}\-WA\d+\..*$ : where the run of digits after "-WA"
\* ends (0: no match).  A digit is not ".", so there is at most one such place.
PhotoRegexEnd(name) ==
    LET ends == {k \in 16..(Len(name) - 1) :
                    /\ SubSeq(name, 1, 4) = "IMG-"
                    /\ AllDigits(name, 5, 12)
                    /\ SubSeq(name, 13, 15) = "-WA"
                    /\ AllDigits(name, 16, k)
                    /\ Char(name, k + 1) = "."
                    /\ NoLineFeed(name, k + 2, Len(name))}
    IN  IF ends = {} THEN 0 ELSE CHOOSE k \in ends : TRUE

PhotoOrganizer_date_from_filename(photo) ==
    IF ~file_name(photo).some THEN Err("failed to retrieve photo filename")
    ELSE LET name == file_name(photo).val
         IN  IF PhotoRegexEnd(name) = 0 THEN Err("file name doesn't have date format")
             ELSE LET year == parse(SubSeq(name, 5, 8))
                      month == parse(SubSeq(name, 9, 10))
                  IN  IF year.tag # "Ok" THEN Panic           \* parse().unwrap()
                      ELSE IF month.tag # "Ok" THEN Panic     \* parse().unwrap()
                      ELSE Date_new(year.val, month.val)

\* What the Exif reader finds in the file: "noopen" (File::open fails), "none"
\* (read_from_container fails), "missing" (no DateTimeOriginal), "broken" (not an
\* ASCII value, or DateTime::from_ascii fails), "ok" (a year: u16 and a month: u8,
\* which from_ascii does not range-check)
PhotoOrganizer_date_from_exif(f, photo) ==
    IF ~Exists(f, photo) THEN wrap_err(Err("No such file or directory"), Msg("failed to open file"))
    ELSE LET node == f[Canon(f, photo)]
         IN  IF node.kind = "file" /\ node.exif.tag = "noopen"
             THEN wrap_err(Err("Permission denied"), Msg("failed to open file"))
             ELSE IF node.kind # "file" \/ node.exif.tag = "none"
             THEN wrap_err(Err("invalid container"), Msg("failed to read the file"))
             ELSE IF node.exif.tag = "missing"
             THEN Err("exif DateTimeOriginal tag is missing")
             ELSE IF node.exif.tag = "broken"
             THEN Err("exif date value is broken")
             ELSE Date_new(node.exif.year, node.exif.month)

\* get_date that asks the file name first and the Exif data second
PhotoOrganizer_get_date_name_first(f, photo) ==
    LET name_date == wrap_err(PhotoOrganizer_date_from_filename(photo),
                              Msg("failed to get date from filename"))
    IN  IF name_date.tag # "Err" THEN name_date
        ELSE wrap_err(wrap_err(PhotoOrganizer_date_from_exif(f, photo),
                               Msg("failed to get date from exif")),
                      ReportAsMsg(name_date.chain))

\* get_date that returns the file name's error alone when both resolvers fail
PhotoOrganizer_get_date_drop_exif_error(f, photo) ==
    LET exif_date == wrap_err(PhotoOrganizer_date_from_exif(f, photo),
                              Msg("failed to get date from exif"))
    IN  IF exif_date.tag = "Ok" THEN exif_date
        ELSE wrap_err(PhotoOrganizer_date_from_filename(photo),
                      Msg("failed to get date from filename"))

PhotoOrganizer_get_date(f, photo) ==
    LET exif_date == wrap_err(PhotoOrganizer_date_from_exif(f, photo),
                              Msg("failed to get date from exif"))
    IN  IF exif_date.tag = "Ok" THEN exif_date
        ELSE wrap_err(wrap_err(PhotoOrganizer_date_from_filename(photo),
                               Msg("failed to get date from filename")),
                      ReportAsMsg(exif_date.chain))

PhotoOrganizer_destination_dir(f, self, item) ==
    LET photo_date == PhotoOrganizer_get_date(f, item)
    IN  IF photo_date.tag # "Ok" THEN photo_date     \* the ? operator
        ELSE Ok(Join(Join(self.dst_dir, get_year(photo_date.val)), get_month(photo_date.val)))

-----------------------------------------------------------------------------
(* organizer/videos.rs *)

VideoOrganizer_SUPPORTED == <<"mp4">>

VideoOrganizer_new(dir) == [kind |-> "video", dst_dir |-> dir]

VideoOrganizer_is_supported(ext) ==
    \E i \in 1..Len(VideoOrganizer_SUPPORTED) : ext = VideoOrganizer_SUPPORTED[i]

VideoOrganizer_should_organize(item) ==
    IF extension(item).some THEN VideoOrganizer_is_supported(extension(item).val) ELSE FALSE

\* Regex ^(?:VID[-_])?(\d{4})(\d{2})\d{2}[_-].+\.mp4$ : the length of the optional
\* prefix it matches with (0 or 4), -1 when it does not match.  "V" is no digit, so
\* at most one of the two prefixes matches.
VideoRegexPrefix(name) ==
    LET offs == {o \in {0, 4} :
                    /\ Len(name) >= o + 14
                    /\ o = 4 => SubSeq(name, 1, 4) \in {"VID-", "VID_"}
                    /\ AllDigits(name, o + 1, o + 8)
                    /\ Char(name, o + 9) \in {"_", "-"}
                    /\ NoLineFeed(name, o + 10, Len(name) - 4)
                    /\ SubSeq(name, Len(name) - 3, Len(name)) = ".mp4"}
    IN  IF offs = {} THEN -1 ELSE CHOOSE o \in offs : TRUE

VideoOrganizer_get_date(video) ==
    IF ~file_name(video).some THEN Err("failed to read file name")
    ELSE LET name == file_name(video).val
             o == VideoRegexPrefix(name)
         IN  IF o < 0 THEN Err("file name doesn't contain date in the format YYYYMMDD")
             ELSE LET year == parse(SubSeq(name, o + 1, o + 4))
                      month == parse(SubSeq(name, o + 5, o + 6))
                  IN  IF year.tag # "Ok" THEN Panic           \* parse().unwrap()
                      ELSE IF month.tag # "Ok" THEN Panic     \* parse().unwrap()
                      ELSE Date_new(year.val, month.val)

VideoOrganizer_destination_dir(self, item) ==
    LET video_date == wrap_err(VideoOrganizer_get_date(item),
                               Msg("failed to generate destination dir"))
    IN  IF video_date.tag # "Ok" THEN video_date     \* the ? operator
        ELSE Ok(Join(self.dst_dir, get_year(video_date.val)))

-----------------------------------------------------------------------------
(* organizer.rs: the MediaTypeOrganizer trait, dispatched on the implementor *)

should_organize(self, item) ==
    IF self.kind = "photo" THEN PhotoOrganizer_should_organize(item)
    ELSE VideoOrganizer_should_organize(item)

destination_dir(f, self, item) ==
    IF self.kind = "photo" THEN PhotoOrganizer_destination_dir(f, self, item)
    ELSE VideoOrganizer_destination_dir(self, item)

-----------------------------------------------------------------------------
(* directory.rs *)

None == [some |-> FALSE]
Some(v) == [some |-> TRUE, val |-> v]

FilesIter_new(dir) == [dirs |-> <<dir>>, files |-> <<>>]

\* the orders in which read_dir may hand out a set of entries: the operating
\* system promises none
Orders(S) ==
    {o \in [1..Cardinality(S) -> S] : \A i, j \in 1..Cardinality(S) : o[i] = o[j] => i = j}

\* the for loop without the read_link check of lines 40-43
RECURSIVE ScanEntries_follow_links(_, _, _, _)
ScanEntries_follow_links(f, entries, ds, fls) ==
    IF entries = <<>> THEN [dirs |-> ds, files |-> fls]
    ELSE LET path == Head(entries)
             rest == Tail(entries)
         IN  IF is_dir(f, path) THEN ScanEntries_follow_links(f, rest, Append(ds, path), fls)
             ELSE IF ~is_file(f, path) THEN ScanEntries_follow_links(f, rest, ds, fls)
             ELSE ScanEntries_follow_links(f, rest, ds, Append(fls, path))

\* the for loop without the push of lines 44-47: subdirectories are not visited
RECURSIVE ScanEntries_no_subdirs(_, _, _, _)
ScanEntries_no_subdirs(f, entries, ds, fls) ==
    IF entries = <<>> THEN [dirs |-> ds, files |-> fls]
    ELSE LET path == Head(entries)
             rest == Tail(entries)
         IN  IF read_link_is_ok(f, path) THEN ScanEntries_no_subdirs(f, rest, ds, fls)
             ELSE IF is_dir(f, path) THEN ScanEntries_no_subdirs(f, rest, ds, fls)
             ELSE IF ~is_file(f, path) THEN ScanEntries_no_subdirs(f, rest, ds, fls)
             ELSE ScanEntries_no_subdirs(f, rest, ds, Append(fls, path))

\* the for loop as a recursive walk: a subdirectory is read where it is met, and
\* its files join the buffer at once, instead of being pushed for later
RECURSIVE ScanEntries_descend(_, _, _, _)
ScanEntries_descend(f, entries, ds, fls) ==
    IF entries = <<>> THEN [dirs |-> ds, files |-> fls]
    ELSE LET path == Head(entries)
             rest == Tail(entries)
         IN  IF read_link_is_ok(f, path) THEN ScanEntries_descend(f, rest, ds, fls)
             ELSE IF is_dir(f, path)
             THEN LET below == IF read_dir_is_ok(f, path)
                               THEN CHOOSE o \in Orders(read_dir(f, path)) : TRUE
                               ELSE <<>>
                      inner == ScanEntries_descend(f, below, ds, fls)
                  IN  ScanEntries_descend(f, rest, inner.dirs, inner.files)
             ELSE IF ~is_file(f, path) THEN ScanEntries_descend(f, rest, ds, fls)
             ELSE ScanEntries_descend(f, rest, ds, Append(fls, path))

\* the for loop without the is_file check of lines 48-50
RECURSIVE ScanEntries_no_file_check(_, _, _, _)
ScanEntries_no_file_check(f, entries, ds, fls) ==
    IF entries = <<>> THEN [dirs |-> ds, files |-> fls]
    ELSE LET path == Head(entries)
             rest == Tail(entries)
         IN  IF read_link_is_ok(f, path) THEN ScanEntries_no_file_check(f, rest, ds, fls)
             ELSE IF is_dir(f, path)
             THEN ScanEntries_no_file_check(f, rest, Append(ds, path), fls)
             ELSE ScanEntries_no_file_check(f, rest, ds, Append(fls, path))

\* lines 35-52: the for loop over the entries of one directory, entry by entry
RECURSIVE ScanEntries(_, _, _, _)
ScanEntries(f, entries, ds, fls) ==
    IF entries = <<>> THEN [dirs |-> ds, files |-> fls]
    ELSE LET path == Head(entries)
             rest == Tail(entries)
         IN  IF read_link_is_ok(f, path) THEN ScanEntries(f, rest, ds, fls)
             ELSE IF is_dir(f, path) THEN ScanEntries(f, rest, Append(ds, path), fls)
             ELSE IF ~is_file(f, path) THEN ScanEntries(f, rest, ds, fls)
             ELSE ScanEntries(f, rest, ds, Append(fls, path))

\* line 29: `dir` was popped before the rest of the call went on as in `outs`
Popped(dir, outs) == {[o EXCEPT !.read = <<dir>> \o o.read] : o \in outs}

\* the while loop with `return None` for `continue` at line 32: a directory that
\* cannot be read ends the call
RECURSIVE PopDirs_stop_on_unreadable(_, _)
PopDirs_stop_on_unreadable(f, ds) ==
    IF ds = <<>> THEN {[dirs |-> <<>>, files |-> <<>>, ret |-> None, read |-> <<>>]}
    ELSE LET dir == Last(ds)
         IN  IF ~read_dir_is_ok(f, dir)
             THEN {[dirs |-> Front(ds), files |-> <<>>, ret |-> None, read |-> <<dir>>]}
             ELSE UNION {LET st == ScanEntries(f, order, Front(ds), <<>>)
                         IN  IF st.files # <<>>
                             THEN {[dirs |-> st.dirs, files |-> Front(st.files),
                                    ret |-> Some(Last(st.files)), read |-> <<dir>>]}
                             ELSE Popped(dir, PopDirs_stop_on_unreadable(f, st.dirs))
                         : order \in Orders(read_dir(f, dir))}

\* the loop with `if let` for `while let` at line 29: one directory per call
PopDirs_if_let(f, ds) ==
    IF ds = <<>> THEN {[dirs |-> <<>>, files |-> <<>>, ret |-> None, read |-> <<>>]}
    ELSE LET dir == Last(ds)
         IN  IF ~read_dir_is_ok(f, dir)
             THEN {[dirs |-> Front(ds), files |-> <<>>, ret |-> None, read |-> <<dir>>]}
             ELSE {LET st == ScanEntries(f, order, Front(ds), <<>>)
                   IN  IF st.files # <<>>
                       THEN [dirs |-> st.dirs, files |-> Front(st.files),
                             ret |-> Some(Last(st.files)), read |-> <<dir>>]
                       ELSE [dirs |-> st.dirs, files |-> <<>>, ret |-> None, read |-> <<dir>>]
                   : order \in Orders(read_dir(f, dir))}

\* lines 29-58: the while loop, entered with an empty file buffer.  The result is
\* the set of what the call may leave and return, one per order of the entries read;
\* `read` is the directories it popped, in order.
RECURSIVE PopDirs(_, _)
PopDirs(f, ds) ==
    IF ds = <<>> THEN {[dirs |-> <<>>, files |-> <<>>, ret |-> None, read |-> <<>>]}
    ELSE LET dir == Last(ds)
         IN  IF ~read_dir_is_ok(f, dir) THEN Popped(dir, PopDirs(f, Front(ds)))
             ELSE UNION {LET st == ScanEntries(f, order, Front(ds), <<>>)
                         IN  IF st.files # <<>>
                             THEN {[dirs |-> st.dirs, files |-> Front(st.files),
                                    ret |-> Some(Last(st.files)), read |-> <<dir>>]}
                             ELSE Popped(dir, PopDirs(f, st.dirs))
                         : order \in Orders(read_dir(f, dir))}

\* FilesIter::next
FilesIter_next(f, ds, fls) ==
    IF fls # <<>>
    THEN {[dirs |-> ds, files |-> Front(fls), ret |-> Some(Last(fls)), read |-> <<>>]}
    ELSE PopDirs(f, ds)

-----------------------------------------------------------------------------
(* organizer.rs *)

Organizer_new(organizers) == organizers

\* What the operating system does to the calls of one move_file: "ok", or a
\* create_dir_all that fails after `made` directories, or a rename that fails
OsOk == [fails |-> "none", made |-> 0]
OsChoices == {OsOk, [fails |-> "rename", made |-> 0]}
                 \cup {[fails |-> "mkdir", made |-> m] : m \in 0..1}

\* move_file without the check of lines 84-88
move_file_unchecked(f, item, dir, os) ==
    LET mk == IF ~is_dir(f, dir)
              THEN create_dir_all(f, dir, os.fails # "mkdir", os.made)
              ELSE [res |-> Ok(TRUE), fs |-> f]
    IN  IF mk.res.tag # "Ok"
        THEN [res |-> wrap_err(mk.res, Msg("failed to create destination dir")), fs |-> mk.fs]
        ELSE IF ~file_name(item).some
        THEN [res |-> Err("failed to get file name"), fs |-> mk.fs]
        ELSE LET mv == rename(mk.fs, item, Join(dir, file_name(item).val), os.fails # "rename")
             IN  [res |-> wrap_err(mv.res, Msg("failed to move file to destination dir")),
                  fs |-> mv.fs]

\* move_file with a copy-then-delete fallback that deletes although the copy failed
move_file_delete_on_failure(f, item, dir, os) ==
    LET mk == IF ~is_dir(f, dir)
              THEN create_dir_all(f, dir, os.fails # "mkdir", os.made)
              ELSE [res |-> Ok(TRUE), fs |-> f]
    IN  IF mk.res.tag # "Ok"
        THEN [res |-> wrap_err(mk.res, Msg("failed to create destination dir")), fs |-> mk.fs]
        ELSE IF ~file_name(item).some
        THEN [res |-> Err("failed to get file name"), fs |-> mk.fs]
        ELSE LET dst_path == Join(dir, file_name(item).val)
             IN  IF is_file(mk.fs, dst_path)
                 THEN [res |-> Err("a file with the same name already exists in the destination path"),
                       fs |-> mk.fs]
                 ELSE LET mv == rename(mk.fs, item, dst_path, os.fails # "rename")
                      IN  [res |-> wrap_err(mv.res, Msg("failed to move file to destination dir")),
                           fs |-> IF mv.res.tag = "Ok" THEN mv.fs
                                  ELSE [q \in DOMAIN mk.fs \ {LCanon(mk.fs, item)} |-> mk.fs[q]]]

move_file(f, item, dir, os) ==
    LET mk == IF ~is_dir(f, dir)
              THEN create_dir_all(f, dir, os.fails # "mkdir", os.made)
              ELSE [res |-> Ok(TRUE), fs |-> f]
    IN  IF mk.res.tag # "Ok"
        THEN [res |-> wrap_err(mk.res, Msg("failed to create destination dir")), fs |-> mk.fs]
        ELSE IF ~file_name(item).some
        THEN [res |-> Err("failed to get file name"), fs |-> mk.fs]
        ELSE LET dst_path == Join(dir, file_name(item).val)
             IN  IF is_file(mk.fs, dst_path)
                 THEN [res |-> Err("a file with the same name already exists in the destination path"),
                       fs |-> mk.fs]
                 ELSE LET mv == rename(mk.fs, item, dst_path, os.fails # "rename")
                      IN  [res |-> wrap_err(mv.res, Msg("failed to move file to destination dir")),
                           fs |-> mv.fs]

\* move_file_until_check without the check of lines 84-88
move_file_until_check_unchecked(f, item, dir, os) ==
    LET mk == IF ~is_dir(f, dir)
              THEN create_dir_all(f, dir, os.fails # "mkdir", os.made)
              ELSE [res |-> Ok(TRUE), fs |-> f]
    IN  IF mk.res.tag # "Ok"
        THEN [res |-> wrap_err(mk.res, Msg("failed to create destination dir")), fs |-> mk.fs]
        ELSE IF ~file_name(item).some
        THEN [res |-> Err("failed to get file name"), fs |-> mk.fs]
        ELSE [res |-> Ok(Join(dir, file_name(item).val)), fs |-> mk.fs]

\* move_file, lines 75-88: everything before the rename.  Ok holds dst_path.
move_file_until_check(f, item, dir, os) ==
    LET mk == IF ~is_dir(f, dir)
              THEN create_dir_all(f, dir, os.fails # "mkdir", os.made)
              ELSE [res |-> Ok(TRUE), fs |-> f]
    IN  IF mk.res.tag # "Ok"
        THEN [res |-> wrap_err(mk.res, Msg("failed to create destination dir")), fs |-> mk.fs]
        ELSE IF ~file_name(item).some
        THEN [res |-> Err("failed to get file name"), fs |-> mk.fs]
        ELSE LET dst_path == Join(dir, file_name(item).val)
             IN  IF is_file(mk.fs, dst_path)
                 THEN [res |-> Err("a file with the same name already exists in the destination path"),
                       fs |-> mk.fs]
                 ELSE [res |-> Ok(dst_path), fs |-> mk.fs]

\* move_file, line 89: the rename, on the filesystem as it is by then
move_file_rename(f, item, dst_path, os) ==
    LET mv == rename(f, item, dst_path, os.fails # "rename")
    IN  [res |-> wrap_err(mv.res, Msg("failed to move file to destination dir")),
         fs |-> mv.fs]

-----------------------------------------------------------------------------
(* config.rs and main.rs.  A directory given as a string is modelled by the path
   PathBuf::from makes of it; the empty string by the empty path. *)

Config_new(f, media_src_str, photos_dst_str, videos_dst_str) ==
    IF ~is_dir(f, media_src_str) THEN Err("media source dir doesn't exist")
    ELSE IF photos_dst_str = <<>> /\ videos_dst_str = <<>>
    THEN Err("at least one of photos_dst or videos_dst shouldn't be empty")
    ELSE IF photos_dst_str # <<>> /\ ~is_dir(f, photos_dst_str)
    THEN Err("photos destination dir doesn't exist")
    ELSE IF videos_dst_str # <<>> /\ ~is_dir(f, videos_dst_str)
    THEN Err("videos destination dir doesn't exist")
    ELSE Ok([media_src |-> media_src_str,
             photos_dst |-> photos_dst_str,
             videos_dst |-> videos_dst_str])

\* main, lines 19-40: PathBuf::to_str is Some for every path of the model (all are
\* valid Unicode), so both classifiers are pushed, whatever the destinations are
main_organizers(cfg) ==
    <<PhotoOrganizer_new(cfg.photos_dst), VideoOrganizer_new(cfg.videos_dst)>>

-----------------------------------------------------------------------------
(* The trees and configurations organize is run on *)

Src == <<"src">>
Dst == <<"dst">>            \* a destination outside the source tree
DstIn == <<"src", "out">>    \* a destination inside the source tree
Alt == <<"alt">>            \* a second destination outside the source tree
Ext == <<"ext">>            \* a directory outside the source tree and the destinations

Camera2019 == ExifDate("ok", 2019, 1)

\* Each entry is a set of <<path, node>> pairs; the directories above them are added.
Catalogue == {
    \* a photo with an embedded date
    {<<Src \o <<"camera.jpg">>, FileNode(1, Camera2019)>>},
    \* a WhatsApp photo without Exif data, in a subdirectory
    {<<Src \o <<"sub", "IMG-20200407-WA0004.jpg">>, FileNode(2, NoExif)>>},
    \* a video, one directory deeper
    {<<Src \o <<"sub", "sub", "20200829_205420.mp4">>, FileNode(3, NoExif)>>},
    \* a second photo with the name and the date of the first
    {<<Src \o <<"sub", "camera.jpg">>, FileNode(4, Camera2019)>>},
    \* a file no classifier supports
    {<<Src \o <<"notes.doc">>, FileNode(5, NoExif)>>},
    \* a file already at the first photo's destination under Dst
    {<<Dst \o <<"2019", "01 - January", "camera.jpg">>, FileNode(6, NoExif)>>},
    \* a video whose name has a non-ASCII digit in the year
    {<<Src \o <<"VID-#0200829-x.mp4">>, FileNode(7, NoExif)>>},
    \* a photo with a broken Exif date and a name that holds no date
    {<<Src \o <<"sub", "scan.jpg">>, FileNode(8, ExifDate("broken", 0, 0))>>},
    \* a symbolic link to a directory outside the tree, which holds a photo
    {<<Src \o <<"link">>, LinkNode(Ext)>>,
     <<Ext \o <<"IMG-20210101-WA0001.jpg">>, FileNode(9, NoExif)>>},
    \* a symbolic link to a photo outside the tree
    {<<Src \o <<"alias.jpg">>, LinkNode(Alt \o <<"orig.jpg">>)>>,
     <<Alt \o <<"orig.jpg">>, FileNode(10, Camera2019)>>},
    \* a directory that cannot be read, which holds a photo
    {<<Src \o <<"locked">>, DirNode(FALSE)>>,
     <<Src \o <<"locked", "IMG-20220202-WA0002.jpg">>, FileNode(11, NoExif)>>},
    \* a fifo with a photo's name
    {<<Src \o <<"pipe.jpg">>, OtherNode>>}
}

Tree(pairs, roots) ==
    LET given == {pr[1] : pr \in pairs}
        above == UNION {{SubSeq(p, 1, n) : n \in 1..Len(p)} : p \in given \cup roots}
    IN  [p \in given \cup above |->
            IF p \in given THEN (CHOOSE pr \in pairs : pr[1] = p)[2] ELSE DirNode(TRUE)]

\* How the Organizer is built: by main from a Config, or by Organizer::new directly
\* (as the tests of organizer.rs do)
ViaMain(photos_dst, videos_dst) ==
    [via |-> "main", photos_dst |-> photos_dst, videos_dst |-> videos_dst,
     organizers |-> <<>>]
ViaNew(organizers) ==
    [via |-> "new", photos_dst |-> <<>>, videos_dst |-> <<>>, organizers |-> organizers]

Entries == {
    ViaMain(Dst, Dst),
    ViaMain(<<>>, Dst),
    ViaMain(Dst, <<>>),
    ViaMain(DstIn, DstIn),
    ViaNew(<<PhotoOrganizer_new(Dst), PhotoOrganizer_new(Alt)>>),
    ViaNew(<<PhotoOrganizer_new(DstIn), PhotoOrganizer_new(Alt)>>),
    ViaNew(<<>>)
}

Roots(entry) ==
    {Src} \cup ({entry.photos_dst, entry.videos_dst} \ {<<>>})
          \cup {entry.organizers[i].dst_dir : i \in 1..Len(entry.organizers)}

\* The state when organize(media_src) has built its FilesIter
Start(tree, entry, organizers) ==
    /\ fs = tree
    /\ fs0 = tree
    /\ config = entry
    /\ media_type_organizers = Organizer_new(organizers)
    /\ dirs = FilesIter_new(Src).dirs
    /\ files = FilesIter_new(Src).files
    /\ pc = "next"
    /\ file = <<>>
    /\ idx = 0
    /\ dst_dir = <<>>
    /\ log = <<>>
    /\ yielded = <<>>
    /\ moves = <<>>
    /\ io_failures = 0
    /\ reads = <<>>
    /\ later_calls = 0
    /\ ext_writes = 0
    /\ date_call = NoDateCall

Init ==
    \E entry \in Entries, items \in SUBSET Catalogue :
        /\ Cardinality(items) <= MaxItems
        /\ LET tree == Tree(UNION items, Roots(entry))
           IN  IF entry.via = "main"
               THEN LET cfg == Config_new(tree, Src, entry.photos_dst, entry.videos_dst)
                    IN  /\ cfg.tag = "Ok"
                        /\ Start(tree, entry, main_organizers(cfg.val))
               ELSE Start(tree, entry, entry.organizers)

-----------------------------------------------------------------------------
(* Organizer::organize, one action per call it makes *)

\* A call organize made for the current file: the operation, the position of the
\* classifier, whether it returned true / Ok, and the result itself
Call(op, i, res) ==
    [op |-> op, i |-> i, ok |-> res.tag = "Ok" /\ (op = "should_organize" => res.val),
     res |-> res]

\* `continue` of the inner loop, or its end: the next classifier, or the next file
NextOrganizer ==
    IF idx < Len(media_type_organizers)
    THEN pc' = "should" /\ idx' = idx + 1
    ELSE pc' = "next" /\ idx' = idx

\* lines 46-48: `continue` unless the classifier accepts the file
AfterShouldOrganize_always(accepted) == pc' = "dest" /\ idx' = idx
AfterShouldOrganize(accepted) ==
    IF accepted THEN pc' = "dest" /\ idx' = idx ELSE NextOrganizer

\* lines 65-68: `break` after a move that succeeded, the next classifier otherwise
AfterMoveFile_no_break(moved) == NextOrganizer
AfterMoveFile(moved) ==
    IF moved THEN pc' = "next" /\ idx' = idx ELSE NextOrganizer

\* line 44: the for loop asks FilesIter for the next file
IterNext ==
    /\ pc = "next"
    /\ \E out \in FilesIter_next(fs, dirs, files) :
          /\ dirs' = out.dirs
          /\ files' = out.files
          /\ IF out.ret.some
             THEN /\ file' = out.ret.val
                  /\ yielded' = Append(yielded, out.ret.val)
                  /\ log' = <<>>
                  /\ idx' = 1
                  /\ pc' = IF Len(media_type_organizers) > 0 THEN "should" ELSE "next"
             ELSE /\ pc' = "done"       \* line 71: Ok(())
                  /\ UNCHANGED <<file, yielded, log, idx>>
          /\ reads' = reads \o out.read
    /\ UNCHANGED <<fs, fs0, config, media_type_organizers, dst_dir, moves, io_failures>>
    /\ UNCHANGED <<later_calls, ext_writes, date_call>>

\* lines 46-48
ShouldOrganize ==
    /\ pc = "should"
    /\ LET accepted == should_organize(media_type_organizers[idx], file)
       IN  /\ log' = Append(log, Call("should_organize", idx, Ok(accepted)))
           /\ AfterShouldOrganize(accepted)
    /\ UNCHANGED <<fs, fs0, config, media_type_organizers, dirs, files, file, dst_dir,
                   yielded, moves, io_failures>>
    /\ UNCHANGED <<reads, later_calls, ext_writes, date_call>>

\* lines 49-58
DestinationDir ==
    /\ pc = "dest"
    /\ LET res == wrap_err(destination_dir(fs, media_type_organizers[idx], file),
                           Msg("failed to get destination dir from file"))
       IN  /\ log' = Append(log, Call("destination_dir", idx, res))
           /\ CASE res.tag = "Ok" -> pc' = "move" /\ idx' = idx /\ dst_dir' = res.val
                [] res.tag = "Err" -> NextOrganizer /\ dst_dir' = dst_dir
                [] res.tag = "Panic" -> pc' = "panic" /\ idx' = idx /\ dst_dir' = dst_dir
    /\ UNCHANGED <<fs, fs0, config, media_type_organizers, dirs, files, file,
                   yielded, moves, io_failures>>
    /\ UNCHANGED <<reads, later_calls, ext_writes, date_call>>

\* lines 60-68
MoveFile ==
    /\ pc = "move"
    /\ \E os \in OsChoices :
          LET mv == move_file(fs, file, dst_dir, os)
              res == wrap_err(mv.res, Msg("failed to move file to destination dir (organize)"))
          IN  /\ os # OsOk => /\ io_failures < MaxIoFailures
                              /\ mv # move_file(fs, file, dst_dir, OsOk)
              /\ io_failures' = IF os = OsOk THEN io_failures ELSE io_failures + 1
              /\ fs' = mv.fs
              /\ log' = Append(log, Call("move_file", idx, res))
              /\ AfterMoveFile(res.tag = "Ok")
              /\ moves' = Append(moves, [id |-> fs[LCanon(fs, file)].id,
                                         from |-> file,
                                         to |-> Join(dst_dir, Last(file)),
                                         i |-> idx,
                                         ok |-> res.tag = "Ok",
                                         res |-> res])
    /\ UNCHANGED <<fs0, config, media_type_organizers, dirs, files, file, dst_dir, yielded>>
    /\ UNCHANGED <<reads, later_calls, ext_writes, date_call>>

Next == IterNext \/ ShouldOrganize \/ DestinationDir \/ MoveFile

Spec == Init /\ [][Next]_vars

-----------------------------------------------------------------------------
(* organize as a run that goes on while it can.  The program is one thread that
   is never suspended for good, so the call it is at is made: weak fairness of
   each step of organize.  FilesIter is not a FusedIterator: a caller may call
   next again after None, which the for loop of organize does not; nothing
   obliges a caller to. *)

IterNextAgain ==
    /\ pc = "done"
    /\ later_calls < MaxLaterCalls
    /\ later_calls' = later_calls + 1
    /\ \E out \in FilesIter_next(fs, dirs, files) :
          /\ dirs' = out.dirs
          /\ files' = out.files
          /\ reads' = reads \o out.read
          /\ yielded' = IF out.ret.some THEN Append(yielded, out.ret.val) ELSE yielded
    /\ UNCHANGED <<fs, fs0, config, media_type_organizers, pc, file, idx, dst_dir, log,
                   moves, io_failures, ext_writes, date_call>>

NextRun == Next \/ IterNextAgain

\* The configurations of the runs: destinations outside the source tree, inside it
\* (by main, and with a second classifier that moves a file on from there), and
\* no classifier at all
RunEntries == {
    ViaMain(Dst, Dst),
    ViaMain(DstIn, DstIn),
    ViaNew(<<PhotoOrganizer_new(DstIn), PhotoOrganizer_new(Alt)>>),
    ViaNew(<<>>)
}

InitRun == Init /\ config \in RunEntries

\* Weak fairness of the four steps of organize.  Each can be taken whenever
\* organize is at it and changes pc, log or yielded, so ENABLED <<A>>_vars is
\* pc = "next", "should", "dest", "move"; for the three steps that go through the
\* filesystem WF_vars(A) is written out with that in place of ENABLED.
SpecRun ==
    /\ InitRun /\ [][NextRun]_vars
    /\ (<>[](pc = "next") => []<><<IterNext>>_vars)
    /\ WF_vars(ShouldOrganize)
    /\ (<>[](pc = "dest") => []<><<DestinationDir>>_vars)
    /\ (<>[](pc = "move") => []<><<MoveFile>>_vars)

-----------------------------------------------------------------------------
(* organize beside another process that writes to the same filesystem: the steps
   of move_file are then not one step.  The other process creates a regular file
   where the file being moved is about to go, before or after the check. *)

OrganizeMsg == Msg("failed to move file to destination dir (organize)")

MoveRecord(res) ==
    [id |-> fs[LCanon(fs, file)].id, from |-> file, to |-> Join(dst_dir, Last(file)),
     i |-> idx, ok |-> res.tag = "Ok", res |-> res]

\* a file the other process creates: it is none of the files organize started with
ExternalFile(n) == FileNode(0 - n, NoExif)

\* move_file, lines 75-88
MoveFileCheck ==
    /\ pc = "move"
    /\ \E os \in OsChoices :
          LET chk == move_file_until_check(fs, file, dst_dir, os)
              res == wrap_err(chk.res, OrganizeMsg)
          IN  /\ os # OsOk => /\ io_failures < MaxIoFailures
                              /\ chk # move_file_until_check(fs, file, dst_dir, OsOk)
              /\ io_failures' = IF os = OsOk THEN io_failures ELSE io_failures + 1
              /\ fs' = chk.fs
              /\ IF res.tag = "Ok"
                 THEN /\ pc' = "rename"
                      /\ UNCHANGED <<idx, log, moves>>
                 ELSE /\ log' = Append(log, Call("move_file", idx, res))
                      /\ moves' = Append(moves, MoveRecord(res))
                      /\ AfterMoveFile(FALSE)
    /\ UNCHANGED <<fs0, config, media_type_organizers, dirs, files, file, dst_dir, yielded>>
    /\ UNCHANGED <<reads, later_calls, ext_writes, date_call>>

\* the other process: open(dst_path, O_CREAT | O_EXCL) in a directory that exists
ExternalWrite ==
    /\ pc \in {"move", "rename"}
    /\ ext_writes < MaxExternalWrites
    /\ LET dst_path == LCanon(fs, Join(dst_dir, Last(file)))
       IN  /\ is_dir(fs, dst_dir)
           /\ dst_path \notin DOMAIN fs
           /\ fs' = [q \in DOMAIN fs \cup {dst_path} |->
                        IF q = dst_path THEN ExternalFile(ext_writes + 1) ELSE fs[q]]
    /\ ext_writes' = ext_writes + 1
    /\ UNCHANGED <<fs0, config, media_type_organizers, dirs, files, pc, file, idx, dst_dir,
                   log, yielded, moves, io_failures, reads, later_calls, date_call>>

\* move_file, line 89, and lines 60-68 of organize
MoveFileRename ==
    /\ pc = "rename"
    /\ \E os \in OsChoices :
          LET mv == move_file_rename(fs, file, Join(dst_dir, Last(file)), os)
              res == wrap_err(mv.res, OrganizeMsg)
          IN  /\ os # OsOk => /\ io_failures < MaxIoFailures
                              /\ mv # move_file_rename(fs, file, Join(dst_dir, Last(file)), OsOk)
              /\ io_failures' = IF os = OsOk THEN io_failures ELSE io_failures + 1
              /\ fs' = mv.fs
              /\ log' = Append(log, Call("move_file", idx, res))
              /\ moves' = Append(moves, MoveRecord(res))
              /\ AfterMoveFile(res.tag = "Ok")
    /\ UNCHANGED <<fs0, config, media_type_organizers, dirs, files, file, dst_dir, yielded>>
    /\ UNCHANGED <<reads, later_calls, ext_writes, date_call>>

NextRace ==
    \/ IterNext \/ ShouldOrganize \/ DestinationDir
    \/ MoveFileCheck \/ ExternalWrite \/ MoveFileRename

SpecRace == Init /\ [][NextRace]_vars

-----------------------------------------------------------------------------
(* FilesIter on its own, as directory.rs's test runs it: FilesIter::new(root) and
   next until None, on a tree nobody changes meanwhile *)

IterCatalogue ==
    Catalogue \cup {
        \* a second subdirectory of the root, with a file
        {<<Src \o <<"other", "clip.mp4">>, FileNode(12, NoExif)>>},
        \* a directory without entries
        {<<Src \o <<"empty">>, DirNode(TRUE)>>},
        \* a second file two directories down
        {<<Src \o <<"sub", "sub", "raw.png">>, FileNode(13, NoExif)>>}
    }

InitIter ==
    \E items \in SUBSET IterCatalogue :
        /\ Cardinality(items) <= MaxIterItems
        /\ Start(Tree(UNION items, {Src}), ViaNew(<<>>), <<>>)

SpecIter == InitIter /\ [][IterNext]_vars

-----------------------------------------------------------------------------
(* Date resolution on its own: one file under the source, its name and its Exif
   data drawn from the cases the resolvers tell apart, with both classifiers
   registered as in the tests of organizer.rs *)

DateNames == {
    "camera.jpg",
    "IMG-20200407-WA0004.jpg",
    "IMG-18380407-WA0004.jpeg",    \* a year before 1839
    "IMG-20201307-WA1.JPG",        \* month 13
    "IMG-#0200407-WA0004.jpg",     \* a non-ASCII digit
    "IMG-20200407-WA.jpg",         \* no digit after "-WA"
    "20200829_205420.mp4",
    "VID_30010829-x.mp4",          \* a year after 3000
    "notes.doc"
}

DateExifs ==
    {ExifDate(tag, 0, 0) : tag \in {"noopen", "none", "missing", "broken"}}
        \cup {ExifDate("ok", y, m) : y \in {1838, 1839, 2019, 3000, 3001}, m \in {0, 1, 12, 13}}

InitDate ==
    \E name \in DateNames, exif \in DateExifs :
        LET entry == ViaNew(<<PhotoOrganizer_new(Dst), VideoOrganizer_new(Dst)>>)
        IN  Start(Tree({<<Join(Src, name), FileNode(1, exif)>>}, Roots(entry)),
                  entry, entry.organizers)

SpecDate == InitDate /\ [][Next]_vars

-----------------------------------------------------------------------------
(* Date::new on its own: year is a u16 and month a u8; every month, and the years
   at the ends of the u16 range, around both bounds and between them *)

DateYears == {0, 1, 12, 1838, 1839, 1840, 2020, 2999, 3000, 3001, 9999, 65535}
DateMonths == 0..255

InitDateNew ==
    /\ \E year \in DateYears, month \in DateMonths :
          date_call = [NoDateCall EXCEPT !.year = year, !.month = month]
    /\ fs = Tree({}, {Src})
    /\ fs0 = fs
    /\ config = ViaNew(<<>>)
    /\ media_type_organizers = Organizer_new(<<>>)
    /\ dirs = <<>>
    /\ files = <<>>
    /\ pc = "done"
    /\ file = <<>>
    /\ idx = 0
    /\ dst_dir = <<>>
    /\ log = <<>>
    /\ yielded = <<>>
    /\ moves = <<>>
    /\ io_failures = 0
    /\ reads = <<>>
    /\ later_calls = 0
    /\ ext_writes = 0

DateNew ==
    /\ date_call.res = NoDateCall.res
    /\ date_call' = [date_call EXCEPT !.res = Date_new(date_call.year, date_call.month)]
    /\ UNCHANGED <<fs, fs0, config, media_type_organizers, dirs, files, pc, file, idx,
                   dst_dir, log, yielded, moves, io_failures, reads, later_calls,
                   ext_writes>>

SpecDateNew == InitDateNew /\ [][DateNew]_vars

-----------------------------------------------------------------------------
(* Properties *)

ConflictMsg == "a file with the same name already exists in the destination path"

\* C1: move_file never overwrites. A move_file call that finds a regular file of the
\* file's name in the destination directory returns an error, and leaves both the
\* source file and that destination file as they were.
C1_MoveNeverOverwrites ==
    [][(/\ pc = "move"
        /\ Join(dst_dir, Last(file)) \in DOMAIN fs
        /\ fs[Join(dst_dir, Last(file))].kind = "file")
       => (/\ ~log'[Len(log')].ok
           /\ log'[Len(log')].op = "move_file"
           /\ file \in DOMAIN fs' /\ fs'[file] = fs[file]
           /\ Join(dst_dir, Last(file)) \in DOMAIN fs'
           /\ fs'[Join(dst_dir, Last(file))] = fs[Join(dst_dir, Last(file))])]_vars

\* C1 witness: the last call was a move_file that failed on a conflict with another
\* file, and both files are where they were when organize started
C1_Witness ==
    /\ log # <<>>
    /\ log[Len(log)].op = "move_file"
    /\ ~log[Len(log)].ok
    /\ log[Len(log)].res.chain[2].msg = ConflictMsg
    /\ file \in DOMAIN fs /\ fs[file] = fs0[file]
    /\ Join(dst_dir, Last(file)) # file
    /\ fs[Join(dst_dir, Last(file))].kind = "file"

\* C2: for each file the classifiers are tried in registration order and the first
\* successful move ends the file: a successful move_file is the last call made for the
\* file, the calls go through the classifiers in increasing order, and a classifier is
\* asked only after every earlier one rejected the file, failed destination_dir or
\* failed the move.
C2_FirstSuccessfulMoveWins ==
    /\ \A k \in 1..Len(log) :
          /\ (log[k].op = "move_file" /\ log[k].ok) => k = Len(log)
          /\ k > 1 => log[k - 1].i <= log[k].i
          /\ log[k].op = "should_organize" =>
                \A n \in 1..(log[k].i - 1) :
                    \E j \in 1..(k - 1) : log[j].i = n /\ ~log[j].ok
    /\ log # <<>> => log[1].i = 1 /\ log[1].op = "should_organize"
    /\ (pc \in {"should", "dest", "move"} /\ log # <<>>) =>
          ~(log[Len(log)].op = "move_file" /\ log[Len(log)].ok)

\* C2 witness: the first of two classifiers moved the file, and the second, which
\* accepts the file as well, was not asked
C2_Witness ==
    /\ pc = "next"
    /\ Len(media_type_organizers) = 2
    /\ Len(log) = 3
    /\ log[3].op = "move_file" /\ log[3].ok /\ log[3].i = 1
    /\ should_organize(media_type_organizers[2], file)

\* C3: destination_dir is called on a (classifier, file) pair only right after
\* should_organize returned true for that pair.
C3_DestinationOnlyAfterAccept ==
    \A k \in 1..Len(log) :
        log[k].op = "destination_dir" =>
            /\ k > 1
            /\ log[k - 1].op = "should_organize"
            /\ log[k - 1].i = log[k].i
            /\ log[k - 1].ok

\* C3 witness: one classifier rejected the file and was not asked for a destination,
\* a later one accepted it and was
C3_Witness ==
    /\ Len(log) >= 3
    /\ log[1].op = "should_organize" /\ ~log[1].ok
    /\ log[2].op = "should_organize" /\ log[2].ok /\ log[2].i = 2
    /\ log[3].op = "destination_dir" /\ log[3].i = 2

\* C4 (as claimed): organize always returns Ok and never stops before the
\* enumerator is exhausted, whatever the files are.
C4_NeverAborts == pc # "panic"

\* the files of the tree organize started on, and those under the source directory
FilesAtStart == {p \in DOMAIN fs0 : fs0[p].kind = "file"}
SourceFiles == {p \in FilesAtStart : IsPrefix(Src, p) /\ p # Src}
StillAtStart(p) == p \in DOMAIN fs /\ fs[p] = fs0[p]
Moved(p) == \E k \in 1..Len(moves) : moves[k].ok /\ moves[k].id = fs0[p].id

\* C5: a file is at its original path unless a move_file of it succeeded; so is, when
\* organize returns, every file no classifier accepted, every file whose accepting
\* classifiers all failed destination_dir, and every file whose moves all failed.
C5_UnmovedStaysInPlace ==
    \A p \in FilesAtStart : StillAtStart(p) \/ Moved(p)

\* C5 witness: organize has returned; the last file it handled was accepted, every
\* move of it failed, the last by a failing rename, and it is at its original path
C5_Witness ==
    /\ pc = "done"
    /\ log # <<>>
    /\ log[Len(log)].op = "move_file"
    /\ ~log[Len(log)].ok
    /\ log[Len(log)].i = Len(media_type_organizers)
    /\ io_failures > 0
    /\ file \in SourceFiles
    /\ StillAtStart(file)
    /\ ~Moved(file)

\* the classifiers that accept the file at p and resolve its date, in the tree
\* organize started on
Takers(p) ==
    {i \in 1..Len(media_type_organizers) :
        /\ should_organize(media_type_organizers[i], p)
        /\ destination_dir(fs0, media_type_organizers[i], p).tag = "Ok"}
FirstTaker(p) == CHOOSE i \in Takers(p) : \A j \in Takers(p) : i <= j
DestinationOf(p, i) == destination_dir(fs0, media_type_organizers[i], p).val
AtDestination(p, dir) ==
    /\ Join(dir, Last(p)) \in DOMAIN fs
    /\ fs[Join(dir, Last(p))] = fs0[p]
    /\ ~StillAtStart(p)

Reached(p) ==
    \A n \in Len(Src)..(Len(p) - 1) :
        fs0[SubSeq(p, 1, n)].kind = "dir" /\ fs0[SubSeq(p, 1, n)].readable
\* another file under the root with the same name that a classifier sends to dir
Rival(p, dir) ==
    \E q \in SourceFiles \ {p} :
        /\ Last(q) = Last(p)
        /\ \E j \in Takers(q) : DestinationOf(q, j) = dir
\* no move_file of the run failed for another reason than a file of the same name
NoMoveBroke ==
    \A k \in 1..Len(moves) :
        moves[k].ok \/ moves[k].res.chain[Len(moves[k].res.chain)].msg = ConflictMsg

ThroughLink(f, p) ==
    \E n \in 1..Len(p) : SubSeq(p, 1, n) \in DOMAIN f /\ f[SubSeq(p, 1, n)].kind = "link"

\* C7: FilesIter never holds, on its directory stack or in its file buffer, and never
\* yields a symbolic link or a path that leads through one.
C7_NeverThroughSymlink ==
    /\ \A k \in 1..Len(dirs) : ~ThroughLink(fs, dirs[k])
    /\ \A k \in 1..Len(files) : ~ThroughLink(fs, files[k])
    /\ \A k \in 1..Len(yielded) : ~ThroughLink(fs0, yielded[k])

\* C7 witness: the enumeration is over on a source directory that holds a symbolic
\* link to a directory with a photo in it, and a file next to the link was yielded
C7_Witness ==
    /\ pc = "done"
    /\ \E l \in DOMAIN fs0 :
          /\ fs0[l].kind = "link"
          /\ Front(l) = Src
          /\ fs0[fs0[l].target].kind = "dir"
          /\ \E q \in DOMAIN fs0 : Front(q) = fs0[l].target /\ fs0[q].kind = "file"
    /\ yielded # <<>>

\* C10 (as claimed): with an empty photos_dst (videos_dst) in the configuration no
\* PhotoOrganizer (VideoOrganizer) is registered, so the run moves no file on behalf
\* of one.
C10_NoMoveForDisabledClassifier ==
    config.via = "main" =>
        \A k \in 1..Len(moves) :
            moves[k].ok =>
                /\ config.photos_dst = <<>> => media_type_organizers[moves[k].i].kind # "photo"
                /\ config.videos_dst = <<>> => media_type_organizers[moves[k].i].kind # "video"

\* the last call made for the current file, when it is a PhotoOrganizer's
\* destination_dir (the filesystem is then as the call saw it)
PhotoDateResolved ==
    /\ log # <<>>
    /\ log[Len(log)].op = "destination_dir"
    /\ media_type_organizers[log[Len(log)].i].kind = "photo"
Resolved == log[Len(log)].res
ExifOf(p) == fs[Canon(fs, p)].exif
ExifInRange(p) ==
    /\ ExifOf(p).tag = "ok"
    /\ 1839 <= ExifOf(p).year /\ ExifOf(p).year <= 3000
    /\ 1 <= ExifOf(p).month /\ ExifOf(p).month <= 12
DateDir(root, date) == Join(Join(root, get_year(date)), get_month(date))
PhotoRoot == media_type_organizers[log[Len(log)].i].dst_dir

\* C8: PhotoOrganizer resolves the date by a strict fallback chain. With a range-valid
\* DateTimeOriginal the destination is that date's, whatever the file name says (even a
\* name the name resolver would panic on); in every other case the outcome is the
\* file name resolver's: its date's destination, its error, or its panic.
C8_ExifFirstThenFilename ==
    PhotoDateResolved =>
        LET by_name == PhotoOrganizer_date_from_filename(file)
        IN  IF ExifInRange(file)
            THEN Resolved = Ok(DateDir(PhotoRoot, [year |-> ExifOf(file).year,
                                                   month |-> ExifOf(file).month]))
            ELSE /\ by_name.tag = Resolved.tag
                 /\ by_name.tag = "Ok" => Resolved = Ok(DateDir(PhotoRoot, by_name.val))

\* C8 witness: a photo whose range-valid Exif date differs from the date in its name
\* got the destination of the Exif date
C8_Witness ==
    /\ PhotoDateResolved
    /\ ExifInRange(file)
    /\ PhotoOrganizer_date_from_filename(file).tag = "Ok"
    /\ PhotoOrganizer_date_from_filename(file).val.year # ExifOf(file).year
    /\ Resolved.tag = "Ok"

\* the chain q ends with the chain p
EndsWith(q, p) == Len(p) <= Len(q) /\ SubSeq(q, Len(q) - Len(p) + 1, Len(q)) = p

\* C9: when the Exif resolver and the file name resolver both fail, get_date returns
\* an error, never a date, and the error holds both failures: the Exif error as one
\* link of its chain and the file name error as the end of the chain.
C9_BothErrorsKept ==
    (/\ PhotoDateResolved
     /\ PhotoOrganizer_date_from_exif(fs, file).tag = "Err"
     /\ PhotoOrganizer_date_from_filename(file).tag = "Err")
    => /\ Resolved.tag = "Err"
       /\ \E j \in 1..Len(Resolved.chain) :
             EndsWith(Resolved.chain[j].inner, PhotoOrganizer_date_from_exif(fs, file).chain)
       /\ EndsWith(Resolved.chain, PhotoOrganizer_date_from_filename(file).chain)

\* C9 witness: an Exif year out of range and a file name month out of range, and the
\* error holds both
C9_Witness ==
    /\ PhotoDateResolved
    /\ ExifOf(file).tag = "ok"
    /\ Resolved.tag = "Err"
    /\ Len(Resolved.chain) = 4
    /\ Resolved.chain[2].inner[2].msg = "invalid year, should be between 1839 and 3000"
    /\ Resolved.chain[4].msg = "invalid month, should be between 1 and 12"

\* C11: Date::new(year, month) succeeds if and only if 1839 <= year <= 3000 and
\* 1 <= month <= 12, and then the Date holds that year and that month; for every other
\* pair it returns an error and no Date, so every Date is range-valid.
C11_DateNewIffInRange ==
    date_call.res # NoDateCall.res =>
        LET in_range == /\ 1839 <= date_call.year /\ date_call.year <= 3000
                        /\ 1 <= date_call.month /\ date_call.month <= 12
        IN  /\ in_range => date_call.res = Ok([year |-> date_call.year,
                                              month |-> date_call.month])
            /\ ~in_range => date_call.res.tag = "Err"

\* C11 witness: the call with both arguments at their upper bounds returned a Date
C11_Witness ==
    /\ date_call.year = 3000
    /\ date_call.month = 12
    /\ date_call.res.tag = "Ok"

\* a regular file at path q is gone from q, or is another file, after the step
ReplacedAt(q) == fs[q].kind = "file" /\ q \in DOMAIN fs' /\ fs'[q] # fs[q]
\* the file was created by the other process
External(node) == node.kind = "file" /\ node.id < 0

\* C12: the check and the rename of move_file are two steps.  The rename runs on
\* whatever is at the destination path by then: the only files a run ever replaces
\* are files another process created at the destination path after the check, and
\* it does replace them; as long as no other process has written, the path that
\* passed the check still holds no file when the rename runs and nothing is replaced.
C12_OverwriteOnlyByRace ==
    /\ []((pc = "rename" /\ ext_writes = 0) => ~is_file(fs, Join(dst_dir, Last(file))))
    /\ [][\A q \in DOMAIN fs :
              ReplacedAt(q) =>
                  /\ pc = "rename"
                  /\ q = LCanon(fs, Join(dst_dir, Last(file)))
                  /\ External(fs[q])
                  /\ ext_writes > 0]_vars
    /\ [][(pc = "rename" /\ is_file(fs, Join(dst_dir, Last(file))) /\ pc' # "rename"
            /\ io_failures' = io_failures)
           => /\ moves'[Len(moves')].ok
              /\ fs'[LCanon(fs, Join(dst_dir, Last(file)))] = fs[LCanon(fs, file)]]_vars

\* C12 witness: the other process created a file at the destination path after the
\* check, the move succeeded all the same, and the file it created is gone
C12_Witness ==
    /\ ext_writes > 0
    /\ moves # <<>>
    /\ moves[Len(moves)].ok
    /\ fs[moves[Len(moves)].to].id = moves[Len(moves)].id
    /\ \A q \in DOMAIN fs : ~External(fs[q])

\* the regular files FilesIter can reach from the root of the tree it started on:
\* those under readable directories that are no symbolic links
Reachable == {p \in SourceFiles : Reached(p)}
YieldedBefore(j) == {yielded[i] : i \in 1..(j - 1)}
IsAbove(d, e) == Len(d) < Len(e) /\ SubSeq(e, 1, Len(d)) = d

\* C13: FilesIter yields every file located directly in a directory D before any file
\* located in a subdirectory, at any depth, of D, and the files of one directory are
\* yielded one after the other, with no file of another directory between them.
C13_DirectoryFilesFirst ==
    \A j \in 1..Len(yielded) :
        /\ \A p \in Reachable :
              IsAbove(Front(p), Front(yielded[j])) => p \in YieldedBefore(j)
        /\ \A i \in 1..j :
              Front(yielded[i]) = Front(yielded[j]) =>
                  \A k \in i..j : Front(yielded[k]) = Front(yielded[j])

\* C13 witness: two files of the root were yielded, then a file of a subdirectory,
\* then a file of a subdirectory of that one
C13_Witness ==
    /\ Len(yielded) = 4
    /\ Front(yielded[1]) = Src
    /\ Front(yielded[2]) = Src
    /\ Front(Front(yielded[3])) = Src
    /\ Front(Front(yielded[4])) = Front(yielded[3])

\* the directories of the starting tree that cannot be read
Unreadable == {d \in DOMAIN fs0 : fs0[d].kind = "dir" /\ ~fs0[d].readable}
ReadAt(d) == {i \in 1..Len(reads) : reads[i] = d}

\* C14: a directory that cannot be read is skipped: it is popped, none of its entries
\* is yielded, and the enumeration goes on.  FilesIter returns None only with its
\* directory stack and its file buffer both empty, and by then it has yielded the
\* files of every readable directory it can reach, whatever unreadable directories
\* the tree has; the caller sees files and None, never an error.
C14_UnreadableSkipped ==
    /\ pc \in {"next", "done"}
    /\ \A j \in 1..Len(yielded) : \A d \in Unreadable : ~IsPrefix(d, yielded[j])
    /\ pc = "done" =>
          /\ dirs = <<>>
          /\ files = <<>>
          /\ \A d \in Unreadable : Reached(d) => ReadAt(d) # {}
          /\ \A p \in Reachable : \E j \in 1..Len(yielded) : yielded[j] = p

\* C14 witness: the enumeration is over; an unreadable directory that holds a file
\* was popped, a readable directory was popped after it, and a file of that one
\* was yielded
C14_Witness ==
    /\ pc = "done"
    /\ \E d \in Unreadable :
          /\ \E p \in SourceFiles : Front(p) = d
          /\ \E i \in ReadAt(d) : \E k \in (i + 1)..Len(reads) :
                \E j \in 1..Len(yielded) : Front(yielded[j]) = reads[k]

\* C15: on a tree that does not change during the enumeration FilesIter yields each
\* regular file that is no symbolic link and that it can reach from the root through
\* readable directories that are no symbolic links exactly once, and nothing else;
\* it reads each directory at most once.
C15_EachFileExactlyOnce ==
    /\ \A i, j \in 1..Len(yielded) : yielded[i] = yielded[j] => i = j
    /\ \A j \in 1..Len(yielded) : yielded[j] \in Reachable
    /\ \A i, j \in 1..Len(reads) : reads[i] = reads[j] => i = j
    /\ pc = "done" => {yielded[j] : j \in 1..Len(yielded)} = Reachable

\* C15 witness: the enumeration is over on a tree with a symbolic link, a fifo and
\* two reachable files in two directories, and exactly those two were yielded
C15_Witness ==
    /\ pc = "done"
    /\ \E l \in DOMAIN fs0 : fs0[l].kind = "link"
    /\ \E o \in DOMAIN fs0 : fs0[o].kind = "other"
    /\ Len(yielded) = 2
    /\ Front(yielded[1]) # Front(yielded[2])
    /\ Len(reads) >= 2

\* C16: organize comes to an end on every tree: it returns, or it is aborted by the
\* panic of a classifier, also with a destination inside the source tree, where moves
\* add directories and files to parts of the tree not yet visited.  Once
\* FilesIter::next has returned None, every later call returns None and leaves the
\* stack and the buffer empty.
C16_Terminates ==
    /\ <>(pc \in {"done", "panic"})
    /\ [][pc = "done" =>
              /\ pc' = "done"
              /\ yielded' = yielded
              /\ dirs' = <<>>
              /\ files' = <<>>]_vars

\* C16 witness: organize has returned from a run in which a file it had moved to a
\* directory inside the source tree was enumerated again there, and next was called
\* again after None
C16_Witness ==
    /\ pc = "done"
    /\ later_calls = MaxLaterCalls
    /\ \E j \in 1..Len(yielded) :
          /\ yielded[j] \notin DOMAIN fs0
          /\ \E k \in 1..Len(moves) : moves[k].ok /\ moves[k].to = yielded[j]

\* the successful moves of the file that was at p when organize started
MovesOf(p) == {k \in 1..Len(moves) : moves[k].ok /\ moves[k].id = fs0[p].id}
\* where that file is now
PlacesOf(p) == {q \in DOMAIN fs : fs[q] = fs0[p]}
FilesNow == {q \in DOMAIN fs : fs[q].kind = "file"}
\* two files under the root with one name, each accepted by one classifier, which
\* sends both to one directory
Clash(p, q) ==
    /\ p # q
    /\ Last(p) = Last(q)
    /\ Reached(p) /\ Reached(q)
    /\ Cardinality(Takers(p)) = 1
    /\ Takers(q) = Takers(p)
    /\ DestinationOf(p, FirstTaker(p)) = DestinationOf(q, FirstTaker(q))
    /\ ~is_file(fs0, Join(DestinationOf(p, FirstTaker(p)), Last(p)))

\* C17 (as claimed): during one organize run every file is moved at most once, and
\* the files are conserved: each file the run started with is at exactly one path and
\* there is no other file.  Of two files under the root with one name and one
\* destination at most one is moved, and when organize has returned without a
\* failed directory creation or rename exactly one is at the destination and the
\* other where it was.
C17_MovedAtMostOnce ==
    /\ \A p \in FilesAtStart : Cardinality(MovesOf(p)) <= 1
    /\ \A p \in FilesAtStart : Cardinality(PlacesOf(p)) = 1
    /\ Cardinality(FilesNow) = Cardinality(FilesAtStart)
    /\ \A p, q \in SourceFiles :
          Clash(p, q) =>
              /\ MovesOf(p) = {} \/ MovesOf(q) = {}
              /\ (pc = "done" /\ NoMoveBroke) =>
                    \/ AtDestination(p, DestinationOf(p, FirstTaker(p))) /\ StillAtStart(q)
                    \/ AtDestination(q, DestinationOf(q, FirstTaker(q))) /\ StillAtStart(p)

====
